---- MODULE Spec2Model ----
(***************************************************************************)
(* PPT Professional Designer: the PPTDesignerSystem object of              *)
(* backend/ppt_designer_backend.py and the Flask endpoints of              *)
(* backend/api_endpoints.py that drive the process-wide instance `system`. *)
(*                                                                         *)
(* Conventions                                                             *)
(*   - a question id is the sequence of its dot-separated components       *)
(*     ("q1.1.1" is <<"q1","1","1">>, the empty string is <<"">>), so that *)
(*     question_id.split('.') is the id itself;                            *)
(*   - a response value is a tagged record [tag, v]: text, bool ("true" /  *)
(*     "false"), list (v = "" is the empty list, otherwise the one-element *)
(*     list [v]) and none (JSON null / missing key);                       *)
(*   - floats are exact: category scores are kept in tenths, progress as a *)
(*     fraction num/den, match scores as integers;                         *)
(*   - Korean literals are written in ASCII: "edu" for the goal literal,   *)
(*     "1day" / "1week" / "1month" for the timeline literals,              *)
(*     "intermediate" for the default experience level.                    *)
(***************************************************************************)
EXTENDS Integers, Sequences, FiniteSets, TLC

\* config: the name of the configuration document loaded; system: the
\* instance (the module-global of the Flask process); result: what the last
\* call or request returned; history: the submits made on the instance;
\* nops: calls / requests counted against the bounds; handler: the batch
\* request whose loop is running, when requests are served on threads
VARIABLES config, system, result, history, nops, handler

vars == <<config, system, result, history, nops, handler>>

(* ------------------------------ bounds -------------------------------- *)
\* calls of submit_response / generate_recommendations on one instance
MaxCalls == 3
\* POST requests that submit responses
MaxRequests == 2
\* entries in one batch request
MaxBatch == 2

(* --------------------------- response values -------------------------- *)
Text(s) == [tag |-> "text", v |-> s]
Bool(b) == [tag |-> "bool", v |-> IF b THEN "true" ELSE "false"]
List(s) == [tag |-> "list", v |-> s]
NoneVal == [tag |-> "none", v |-> ""]

\* Python truthiness of a response value
Truthy(val) ==
    CASE val.tag = "text" -> val.v # ""
      [] val.tag = "bool" -> val.v = "true"
      [] val.tag = "list" -> val.v # ""
      [] OTHER -> FALSE

\* str.lower() on the strings the model uses
Lower(s) ==
    CASE s = "MINIMAL" -> "minimal"
      [] s = "Minimal" -> "minimal"
      [] OTHER -> s

\* `val in tags` for a list of strings: a bool or a list never equals a string
PyIn(val, tags) == val.tag = "text" /\ val.v \in tags

(* ----------------------------- question ids --------------------------- *)
Q_GOAL == <<"q1", "1", "1">>
Q_COLOR == <<"q1", "3", "2">>
Q_STYLE == <<"q2", "1", "1">>
Q_VERSION == <<"q2", "2", "1">>
Q_TIMELINE == <<"q5", "1", "1">>
Q_EXPERIENCE == <<"q5", "1", "2">>
Q_UNKNOWN == <<"q9", "9", "9">>
\* an id of a mapped prefix that no question of the catalog has
Q_ORPHAN == <<"q1", "1", "7">>
EmptyId == <<"">>

Min(a, b) == IF a < b THEN a ELSE b

\* '.'.join(question_id.split('.')[:2])
Prefix(question_id) == SubSeq(question_id, 1, Min(2, Len(question_id)))

Categories == {"content_goals", "audience_context", "design_preferences",
               "technical_requirements", "timeline_resources", "scalability"}

\* category_mapping.get(prefix); "" stands for None
CategoryMapping(prefix) ==
    CASE prefix = <<"q1", "1">> -> "content_goals"
      [] prefix = <<"q1", "2">> -> "audience_context"
      [] prefix = <<"q1", "3">> -> "design_preferences"
      [] prefix = <<"q2", "1">> -> "design_preferences"
      [] prefix = <<"q2", "2">> -> "technical_requirements"
      [] prefix = <<"q3", "1">> -> "content_goals"
      [] prefix = <<"q3", "2">> -> "audience_context"
      [] prefix = <<"q4", "1">> -> "technical_requirements"
      [] prefix = <<"q4", "2">> -> "technical_requirements"
      [] prefix = <<"q5", "1">> -> "timeline_resources"
      [] prefix = <<"q5", "2">> -> "scalability"
      [] OTHER -> ""

(* ---------------------------- configuration --------------------------- *)
Question(id, req, w) == [question_id |-> id, required |-> req, weight |-> w]

NoRoadmaps == [k \in {} |-> 0]

Section(qs, roadmaps) ==
    [strategic_questions |-> qs, implementation_roadmaps |-> roadmaps]

Roadmaps ==
    [k \in {"tight_timeline_1day", "standard_timeline_1week", "extended_timeline_1month"} |->
        CASE k = "tight_timeline_1day" ->
                 [steps |-> <<"pick">>, resources |-> "template",
                  customization_level |-> "minimal"]
          [] k = "standard_timeline_1week" ->
                 [steps |-> <<"pick", "adapt">>, resources |-> "template+assets",
                  customization_level |-> "moderate"]
          [] OTHER ->
                 [steps |-> <<"pick", "adapt", "extend">>, resources |-> "full",
                  customization_level |-> "extensive"]]

\* workflow_phases: five phases, the roadmaps in phase 5 / section 1
Phases(req) ==
    << << Section(<<Question(Q_GOAL, req, 8)>>, NoRoadmaps),
          Section(<<Question(Q_COLOR, FALSE, 6)>>, NoRoadmaps) >>,
       << Section(<<Question(Q_STYLE, req, 9)>>, NoRoadmaps),
          Section(<<Question(Q_VERSION, FALSE, 7)>>, NoRoadmaps) >>,
       << Section(<< >>, NoRoadmaps) >>,
       << >>,
       << Section(<<Question(Q_TIMELINE, FALSE, 10), Question(Q_EXPERIENCE, FALSE, 5)>>,
                  Roadmaps) >> >>

WeightDistribution(m) == [c \in Categories |-> m]

\* the configuration documents a run may load: the usual one, and one
\* with small category maxima and no required question
Configs ==
    [name \in {"standard", "small"} |->
        IF name = "standard"
        THEN [workflow_phases |-> Phases(TRUE),
              scoring_system |-> [weight_distribution |-> WeightDistribution(20)]]
        ELSE [workflow_phases |-> Phases(FALSE),
              scoring_system |-> [weight_distribution |-> WeightDistribution(1)]]]

\* self.config: the document loaded; the variable config names it
Loaded == Configs[config]

(* ------------------------- PPTDesignerSystem -------------------------- *)
EmptyStore == [k \in {} |-> 0]

NoSystem == [kind |-> "None"]

\* __init__
NewSystem ==
    [kind |-> "PPTDesignerSystem", user_responses |-> EmptyStore,
     recommendations |-> << >>]

RECURSIVE Concat(_)
Concat(ss) == IF ss = << >> THEN << >> ELSE Head(ss) \o Concat(Tail(ss))

SectionsQuestions(phase) ==
    Concat([i \in 1..Len(phase) |-> phase[i].strategic_questions])

\* get_all_questions
GetAllQuestions(cfg) ==
    Concat([p \in 1..Len(cfg.workflow_phases) |-> SectionsQuestions(cfg.workflow_phases[p])])

\* get_questions_by_phase: workflow_phases[phase_id - 1] is a Python list
\* subscript, so an index from -n to -1 counts from the end of the list and
\* only an index outside -n .. n-1 raises IndexError
GetQuestionsByPhase(cfg, phase_id) ==
    LET n == Len(cfg.workflow_phases)
        index == phase_id - 1
    IN IF index >= 0 /\ index < n
       THEN [raised |-> FALSE, ret |-> SectionsQuestions(cfg.workflow_phases[index + 1])]
       ELSE IF index < 0 /\ index >= 0 - n
       THEN [raised |-> FALSE,
             ret |-> SectionsQuestions(cfg.workflow_phases[n + index + 1])]
       ELSE [raised |-> TRUE, ret |-> << >>]

NoQuestion == [question_id |-> << >>, required |-> FALSE, weight |-> 0]

\* a lookup that settles for the first question of the same prefix
FindQuestionByPrefix(cfg, question_id) ==
    LET qs == GetAllQuestions(cfg)
        hits == {i \in 1..Len(qs) : Prefix(qs[i].question_id) = Prefix(question_id)}
    IN IF hits = {} THEN NoQuestion
       ELSE qs[CHOOSE i \in hits : \A j \in hits : i <= j]

\* _find_question: the first question with that id, NoQuestion for None
FindQuestion(cfg, question_id) ==
    LET qs == GetAllQuestions(cfg)
        hits == {i \in 1..Len(qs) : qs[i].question_id = question_id}
    IN IF hits = {} THEN NoQuestion
       ELSE qs[CHOOSE i \in hits : \A j \in hits : i <= j]

\* submit_response that keeps the response an id already has
SubmitResponseKeepFirst(sys, question_id, response, additional_details) ==
    LET ur == [response |-> response, additional_details |-> additional_details]
        old == sys.user_responses
    IN [sys EXCEPT !.user_responses =
            [k \in DOMAIN old \cup {question_id} |->
                IF k \in DOMAIN old THEN old[k] ELSE ur]]

\* submit_response
SubmitResponse(sys, question_id, response, additional_details) ==
    LET ur == [response |-> response, additional_details |-> additional_details]
        old == sys.user_responses
    IN [sys EXCEPT !.user_responses =
            [k \in DOMAIN old \cup {question_id} |->
                IF k = question_id THEN ur ELSE old[k]]]

\* a contribution that does not look at the stored value
ContributionAnyValue(cfg, store, question_id, c) ==
    LET q == FindQuestion(cfg, question_id)
    IN IF CategoryMapping(Prefix(question_id)) = c /\ q # NoQuestion
       THEN q.weight ELSE 0

\* one response's contribution (in tenths) to category c
Contribution(cfg, store, question_id, c) ==
    LET q == FindQuestion(cfg, question_id)
    IN IF CategoryMapping(Prefix(question_id)) = c
          /\ q # NoQuestion /\ Truthy(store[question_id].response)
       THEN q.weight ELSE 0

RECURSIVE SumContributions(_, _, _, _)
SumContributions(cfg, store, ids, c) ==
    IF ids = {} THEN 0
    ELSE LET id == CHOOSE x \in ids : TRUE
         IN Contribution(cfg, store, id, c) + SumContributions(cfg, store, ids \ {id}, c)

\* calculate_profile_score without the cap at the category maximum
CalculateProfileScoreNoCap(cfg, sys) ==
    [c \in Categories |->
        SumContributions(cfg, sys.user_responses, DOMAIN sys.user_responses, c) * 2]

\* calculate_profile_score, in tenths
CalculateProfileScore(cfg, sys) ==
    [c \in Categories |->
        Min(SumContributions(cfg, sys.user_responses, DOMAIN sys.user_responses, c) * 2,
            cfg.scoring_system.weight_distribution[c] * 10)]

(* ------------------------------ templates ----------------------------- *)
Template(name, style, color, suitable, versions) ==
    [name |-> name, url |-> <<"https://example.com", name>>,
     style_tags |-> style, color_schemes |-> color,
     suitable_for |-> suitable, compatible_versions |-> versions]

\* TemplateSearchEngine.search_templates: the two mock templates
MinimalBeige ==
    Template("Minimal Beige Professional", {"minimal", "modern", "professional"},
             {"beige_orange"}, {"edu", "info"}, {"2019", "2021", "Microsoft 365"})

ModernEducation ==
    Template("Modern Education Template", {"modern", "creative", "educational"},
             {"beige_orange", "blue_gray"}, {"edu", "talk"},
             {"2016", "2019", "2021", "Microsoft 365"})

SearchTemplates == <<MinimalBeige, ModernEducation>>

\* a template whose style tag is capitalised
CapitalTag ==
    Template("Capital Tag", {"Minimal"}, {"custom"}, {"talk"}, {"2016"})

\* the number of recommendations generate_recommendations returns
TopN == 10
\* the number of recommendations export_user_profile includes
ExportN == 5

LongNames == <<"t01", "t02", "t03", "t04", "t05", "t06", "t07", "t08", "t09", "t10", "t11">>

\* a catalog longer than TopN: entry i has the tags of one of the three
\* templates above and its own name
LongCatalog ==
    [i \in 1..(TopN + 1) |->
        LET base == CASE i % 3 = 1 -> MinimalBeige
                      [] i % 3 = 2 -> ModernEducation
                      [] OTHER -> CapitalTag
        IN [base EXCEPT !.name = LongNames[i], !.url = <<"https://example.com", LongNames[i]>>]]

Catalogs ==
    { << >>, <<ModernEducation, CapitalTag, MinimalBeige>>, LongCatalog }

Templates == {MinimalBeige, CapitalTag}

(* --------------------------- template matching ------------------------ *)
Has(store, question_id) == question_id \in DOMAIN store

\* user_style.response.lower(): only a str has .lower()
StyleRaises(store) == Has(store, Q_STYLE) /\ store[Q_STYLE].response.tag # "text"

StyleMatch(store, t) ==
    IF Has(store, Q_STYLE) /\ Lower(store[Q_STYLE].response.v) \in t.style_tags
    THEN 25 ELSE 0

ColorMatch(store, t) ==
    IF Has(store, Q_COLOR) /\ PyIn(store[Q_COLOR].response, t.color_schemes)
    THEN 20 ELSE 0

FunctionalityMatch(store, t) ==
    IF Has(store, Q_GOAL) /\ PyIn(store[Q_GOAL].response, t.suitable_for)
    THEN 30 ELSE 0

TechnicalCompatibility(store, t) ==
    IF Has(store, Q_VERSION) /\ PyIn(store[Q_VERSION].response, t.compatible_versions)
    THEN 25 ELSE 0

\* a match score whose factors exclude each other: only the first factor
\* that matches is counted
CalculateTemplateMatchScoreFirstOnly(cfg, sys, t) ==
    LET store == sys.user_responses
    IN IF StyleRaises(store) THEN [raised |-> TRUE, score |-> 0]
       ELSE [raised |-> FALSE,
             score |-> IF StyleMatch(store, t) > 0 THEN StyleMatch(store, t)
                       ELSE IF ColorMatch(store, t) > 0 THEN ColorMatch(store, t)
                       ELSE IF FunctionalityMatch(store, t) > 0
                            THEN FunctionalityMatch(store, t)
                       ELSE TechnicalCompatibility(store, t)]

\* calculate_template_match_score: [raised, score]; raised is the
\* AttributeError of .lower() on a non-text style response
CalculateTemplateMatchScore(cfg, sys, t) ==
    LET store == sys.user_responses
    IN IF StyleRaises(store) THEN [raised |-> TRUE, score |-> 0]
       ELSE [raised |-> FALSE,
             score |-> Min(StyleMatch(store, t) + ColorMatch(store, t)
                           + FunctionalityMatch(store, t)
                           + TechnicalCompatibility(store, t), 100)]

(* ------------------------------- ranking ------------------------------ *)
Recommendation(t, score) ==
    [template_name |-> t.name, template_url |-> t.url, match_score |-> score,
     style_tags |-> t.style_tags]

\* list.sort(key=match_score, reverse=True) is stable: an element goes after
\* every element already placed whose score is not smaller
InsertDesc(x, sorted) ==
    LET k == Cardinality({i \in 1..Len(sorted) : sorted[i].match_score >= x.match_score})
    IN SubSeq(sorted, 1, k) \o <<x>> \o SubSeq(sorted, k + 1, Len(sorted))

RECURSIVE SortDesc(_)
SortDesc(recs) ==
    IF recs = << >> THEN << >>
    ELSE InsertDesc(recs[Len(recs)], SortDesc(SubSeq(recs, 1, Len(recs) - 1)))

FirstN(s, n) == SubSeq(s, 1, Min(n, Len(s)))

\* generate_recommendations that sorts the list it was given as well
GenerateRecommendationsInPlace(cfg, sys, templates_database) ==
    LET ms == [i \in 1..Len(templates_database) |->
                  CalculateTemplateMatchScore(cfg, sys, templates_database[i])]
        recs == SortDesc([i \in 1..Len(templates_database) |->
                             Recommendation(templates_database[i], ms[i].score)])
        byScore == SortDesc([i \in 1..Len(templates_database) |->
                                [template |-> templates_database[i],
                                 match_score |-> ms[i].score]])
    IN IF \E i \in 1..Len(templates_database) : ms[i].raised
       THEN [raised |-> TRUE, ret |-> << >>, sys |-> sys,
             templates_database |-> templates_database]
       ELSE [raised |-> FALSE, ret |-> FirstN(recs, TopN),
             sys |-> [sys EXCEPT !.recommendations = recs],
             templates_database |-> [i \in 1..Len(byScore) |-> byScore[i].template]]

\* generate_recommendations: [raised, ret, sys, templates_database]; a raise
\* in the loop leaves self.recommendations as it was; the recommendations
\* are built in a list of their own and that list is the one sorted, so the
\* caller's templates_database is after the call what it was before
GenerateRecommendations(cfg, sys, templates_database) ==
    LET ms == [i \in 1..Len(templates_database) |->
                  CalculateTemplateMatchScore(cfg, sys, templates_database[i])]
        recs == SortDesc([i \in 1..Len(templates_database) |->
                             Recommendation(templates_database[i], ms[i].score)])
    IN IF \E i \in 1..Len(templates_database) : ms[i].raised
       THEN [raised |-> TRUE, ret |-> << >>, sys |-> sys,
             templates_database |-> templates_database]
       ELSE [raised |-> FALSE, ret |-> FirstN(recs, TopN),
             sys |-> [sys EXCEPT !.recommendations = recs],
             templates_database |-> templates_database]

(* -------------------------------- plan -------------------------------- *)
MissingKey == "<missing>"

\* the timeline -> roadmap key table with its default
TimelineKey(response) ==
    CASE response = Text("1day") -> "tight_timeline_1day"
      [] response = Text("1week") -> "standard_timeline_1week"
      [] response = Text("1month") -> "extended_timeline_1month"
      [] OTHER -> "standard_timeline_1week"

\* generate_implementation_plan: a list response is unhashable as a dict
\* key (TypeError); a configuration without phase 5 / section 1 raises too
GenerateImplementationPlan(cfg, sys) ==
    LET store == sys.user_responses
        base == [raised |-> FALSE,
                 timeline |-> IF Has(store, Q_TIMELINE) THEN store[Q_TIMELINE].response
                              ELSE Text("1week"),
                 experience_level |-> IF Has(store, Q_EXPERIENCE)
                                      THEN store[Q_EXPERIENCE].response
                                      ELSE Text("intermediate"),
                 phases |-> << >>, resources_needed |-> << >>,
                 customization_level |-> MissingKey]
    IN IF ~Has(store, Q_TIMELINE) THEN base
       ELSE IF store[Q_TIMELINE].response.tag = "list"
               \/ Len(cfg.workflow_phases) < 5 \/ Len(cfg.workflow_phases[5]) < 1
       THEN [base EXCEPT !.raised = TRUE]
       ELSE LET maps == cfg.workflow_phases[5][1].implementation_roadmaps
                key == TimelineKey(store[Q_TIMELINE].response)
            IN IF key \in DOMAIN maps
               THEN [base EXCEPT !.phases = maps[key].steps,
                                 !.resources_needed = <<maps[key].resources>>,
                                 !.customization_level = maps[key].customization_level]
               ELSE [base EXCEPT !.resources_needed = <<"">>,
                                 !.customization_level = "moderate"]

(* ------------------------------- export ------------------------------- *)
ExportUserProfile(cfg, sys) ==
    LET top == FirstN(sys.recommendations, ExportN)
    IN [responses |-> sys.user_responses,
        profile_scores |-> CalculateProfileScore(cfg, sys),
        recommendations |-> [i \in 1..Len(top) |->
                                [name |-> top[i].template_name,
                                 url |-> top[i].template_url,
                                 score |-> top[i].match_score]]]

(* ------------------------------ progress ------------------------------ *)
RECURSIVE RequiredOf(_)
\* [q for q in all_questions if q.required]
RequiredOf(qs) ==
    IF qs = << >> THEN << >>
    ELSE (IF Head(qs).required THEN <<Head(qs)>> ELSE << >>) \o RequiredOf(Tail(qs))

RequiredQuestions(cfg) == RequiredOf(GetAllQuestions(cfg))

RECURSIVE AnsweredCountTruthy(_, _)
\* a count of the questions answered with a truthy value
AnsweredCountTruthy(qs, store) ==
    IF qs = << >> THEN 0
    ELSE (IF Head(qs).question_id \in DOMAIN store
             /\ Truthy(store[Head(qs).question_id].response) THEN 1 ELSE 0)
         + AnsweredCountTruthy(Tail(qs), store)

RECURSIVE AnsweredCount(_, _)
\* sum(1 for q in required_questions if q.question_id in self.user_responses)
AnsweredCount(qs, store) ==
    IF qs = << >> THEN 0
    ELSE (IF Head(qs).question_id \in DOMAIN store THEN 1 ELSE 0)
         + AnsweredCount(Tail(qs), store)

\* get_progress_percentage that counts the answers to all questions
GetProgressAllQuestions(cfg, sys) ==
    LET required_questions == RequiredQuestions(cfg)
        answered == AnsweredCount(GetAllQuestions(cfg), sys.user_responses)
    IN IF required_questions = << >> THEN [num |-> 100, den |-> 1]
       ELSE [num |-> answered * 100, den |-> Len(required_questions)]

\* get_progress_percentage as the fraction num / den
GetProgressPercentage(cfg, sys) ==
    LET required_questions == RequiredQuestions(cfg)
        answered_required == AnsweredCount(required_questions, sys.user_responses)
    IN IF required_questions = << >> THEN [num |-> 100, den |-> 1]
       ELSE [num |-> answered_required * 100, den |-> Len(required_questions)]

(* ------------------------------- inputs ------------------------------- *)
NoId == << >>

NoDetails == "<none>"

SubmitIds == {Q_GOAL, Q_COLOR, Q_STYLE, Q_VERSION, Q_TIMELINE, Q_UNKNOWN, Q_ORPHAN}

\* the values a caller submits for an id
ValuesFor(id) ==
    CASE id = Q_GOAL -> {Text("edu"), Text("")}
      [] id = Q_COLOR -> {Text("beige_orange"), Bool(TRUE)}
      [] id = Q_STYLE -> {Text("minimal"), Text("MINIMAL"), Bool(TRUE), List("minimal")}
      [] id = Q_VERSION -> {Text("2021"), List("")}
      [] id = Q_TIMELINE -> {Text("1day"), Text("1week"), Text("1month"), Text("other"),
                             List("1week")}
      [] OTHER -> {Text("edu")}

DetailsFor(id) == IF id = Q_GOAL THEN {NoDetails, "more"} ELSE {NoDetails}

Entry(id, v, d) == [question_id |-> id, response |-> v, additional_details |-> d]

\* the entries of a batch request: valid ones, an empty id, a null value
BatchEntries ==
    { Entry(Q_GOAL, Text("edu"), NoDetails), Entry(Q_GOAL, Bool(FALSE), "more"),
      Entry(Q_STYLE, Text("minimal"), NoDetails),
      Entry(<<"">>, Text("edu"), NoDetails), Entry(Q_COLOR, NoneVal, NoDetails) }

\* the phase numbers a caller passes: below the wrap-around range, inside
\* it, zero, valid ones and one past the last phase
PhaseIds == {-5, -1, 0, 1, 2, 5, 6}

BatchLists == UNION {[1..n -> BatchEntries] : n \in 0..MaxBatch}

\* the batch requests handled while other requests are served
ThreadBatchLists ==
    LET entries == { Entry(Q_GOAL, Text("edu"), NoDetails),
                     Entry(Q_STYLE, Text("minimal"), NoDetails),
                     Entry(Q_COLOR, NoneVal, NoDetails) }
    IN UNION {[1..n -> entries] : n \in 0..MaxBatch}

\* the batch requests of a client that answers the required questions and
\* answers one of them again with false
ProgressBatchLists ==
    LET entries == { Entry(Q_GOAL, Bool(FALSE), "more"),
                     Entry(Q_STYLE, Text("minimal"), NoDetails) }
    IN UNION {[1..n -> entries] : n \in 0..MaxBatch}

Sessions == {"A", "B"}

(* --------------------------- the state machine ------------------------ *)
\* history is a record of the calls made, kept beside the program's state:
\* for every id, the arguments of the last submit_response call on the
\* current instance and the session whose request made it
Remember(hist, s, id, v, d) ==
    [k \in DOMAIN hist \cup {id} |->
        IF k = id THEN [response |-> v, additional_details |-> d, session |-> s]
        ELSE hist[k]]

\* no request is being handled
NoHandler == [at |-> "idle"]

\* a script that has built its instance: system = PPTDesignerSystem()
Init ==
    /\ config \in DOMAIN Configs
    /\ system = NewSystem
    /\ result = [op |-> "start"]
    /\ history = EmptyStore
    /\ nops = 0
    /\ handler = NoHandler

\* the Flask module once imported: system = None
InitApi ==
    /\ config \in DOMAIN Configs
    /\ system = NoSystem
    /\ result = [op |-> "start"]
    /\ history = EmptyStore
    /\ nops = 0
    /\ handler = NoHandler

\* system.submit_response(question_id, response, additional_details)
CallSubmitResponse(id, v, d) ==
    /\ system # NoSystem
    /\ nops < MaxCalls
    /\ system' = SubmitResponse(system, id, v, d)
    /\ history' = Remember(history, "caller", id, v, d)
    /\ result' = [op |-> "submit_response", question_id |-> id, ret |-> TRUE,
                  replaced |-> /\ id \in DOMAIN system.user_responses
                               /\ system.user_responses[id].response # v]
    /\ nops' = nops + 1
    /\ UNCHANGED <<config, handler>>

CallCalculateProfileScore ==
    /\ system # NoSystem
    /\ result' = [op |-> "calculate_profile_score",
                  ret |-> CalculateProfileScore(Loaded, system)]
    /\ UNCHANGED <<config, system, history, nops, handler>>

CallCalculateTemplateMatchScore(t) ==
    /\ system # NoSystem
    /\ result' = [op |-> "calculate_template_match_score", template |-> t,
                  ret |-> CalculateTemplateMatchScore(Loaded, system, t)]
    /\ UNCHANGED <<config, system, history, nops, handler>>

CallGenerateRecommendations(catalog) ==
    /\ system # NoSystem
    /\ nops < MaxCalls
    /\ LET r == GenerateRecommendations(Loaded, system, catalog)
       IN /\ system' = r.sys
          /\ result' = [op |-> "generate_recommendations", catalog |-> catalog,
                        raised |-> r.raised, ret |-> r.ret,
                        catalog_after |-> r.templates_database]
    /\ nops' = nops + 1
    /\ UNCHANGED <<config, history, handler>>

CallGenerateImplementationPlan ==
    /\ system # NoSystem
    /\ result' = [op |-> "generate_implementation_plan",
                  ret |-> GenerateImplementationPlan(Loaded, system)]
    /\ UNCHANGED <<config, system, history, nops, handler>>

CallExportUserProfile ==
    /\ system # NoSystem
    /\ result' = [op |-> "export_user_profile",
                  ret |-> ExportUserProfile(Loaded, system)]
    /\ UNCHANGED <<config, system, history, nops, handler>>

CallGetProgressPercentage ==
    /\ system # NoSystem
    /\ result' = [op |-> "get_progress_percentage",
                  ret |-> GetProgressPercentage(Loaded, system)]
    /\ UNCHANGED <<config, system, history, nops, handler>>

\* system.get_questions_by_phase(phase_id)
CallGetQuestionsByPhase(phase_id) ==
    /\ system # NoSystem
    /\ result' = [op |-> "get_questions_by_phase", phase_id |-> phase_id,
                  ret |-> GetQuestionsByPhase(Loaded, phase_id)]
    /\ UNCHANGED <<config, system, history, nops, handler>>

(* --------------------------- Flask endpoints -------------------------- *)
\* `not question_id`: a missing or empty id
IdFalsy(id) == id = NoId \/ id = EmptyId

\* `if not system: initialize_system()`: initialize_system reads
\* request.json, so it builds the instance only when the request carries a
\* JSON object; otherwise it returns its error and system stays None
Ensure(sys, json_body) ==
    IF sys = NoSystem /\ json_body THEN NewSystem ELSE sys

\* POST /api/system/initialize
ApiInitializeSystem(s) ==
    /\ system' = NewSystem
    /\ history' = EmptyStore
    /\ result' = [op |-> "initialize_system", session |-> s, status |-> 200,
                  success |-> TRUE]
    /\ UNCHANGED <<config, nops, handler>>

\* POST /api/response/submit
ApiSubmitResponse(s, id, v, d) ==
    /\ nops < MaxRequests
    /\ LET sys0 == Ensure(system, TRUE)
       IN IF IdFalsy(id) \/ v = NoneVal
          THEN /\ system' = sys0
               /\ history' = history
               /\ result' = [op |-> "submit_response_endpoint", session |-> s,
                             status |-> 400, success |-> FALSE]
          ELSE LET sys1 == SubmitResponse(sys0, id, v, d)
               IN /\ system' = sys1
                  /\ history' = Remember(history, s, id, v, d)
                  /\ result' = [op |-> "submit_response_endpoint", session |-> s,
                                status |-> 200, success |-> TRUE, question_id |-> id,
                                progress |-> GetProgressPercentage(Loaded, sys1)]
    /\ nops' = nops + 1
    /\ UNCHANGED <<config, handler>>

\* the test of the batch loop
EntryValid(e) == ~IdFalsy(e.question_id) /\ e.response # NoneVal

RECURSIVE ApplyBatchAbort(_, _)
\* a batch loop that stops at the first entry it cannot store
ApplyBatchAbort(sys, responses) ==
    IF responses = << >> \/ ~EntryValid(Head(responses))
    THEN [sys |-> sys, submitted_count |-> 0]
    ELSE LET e == Head(responses)
             rest == ApplyBatchAbort(SubmitResponse(sys, e.question_id, e.response,
                                                    e.additional_details),
                                     Tail(responses))
         IN [sys |-> rest.sys, submitted_count |-> rest.submitted_count + 1]

RECURSIVE ApplyBatch(_, _)
\* the loop of submit_batch_responses: [sys, submitted_count]
ApplyBatch(sys, responses) ==
    IF responses = << >> THEN [sys |-> sys, submitted_count |-> 0]
    ELSE LET e == Head(responses)
             sys1 == IF EntryValid(e)
                     THEN SubmitResponse(sys, e.question_id, e.response,
                                         e.additional_details)
                     ELSE sys
             rest == ApplyBatch(sys1, Tail(responses))
         IN [sys |-> rest.sys,
             submitted_count |-> rest.submitted_count + (IF EntryValid(e) THEN 1 ELSE 0)]

RECURSIVE RememberBatch(_, _, _)
RememberBatch(hist, s, responses) ==
    IF responses = << >> THEN hist
    ELSE LET e == Head(responses)
         IN RememberBatch(IF ~IdFalsy(e.question_id) /\ e.response # NoneVal
                          THEN Remember(hist, s, e.question_id, e.response,
                                        e.additional_details)
                          ELSE hist,
                          s, Tail(responses))

\* POST /api/response/batch
ApiSubmitBatchResponses(s, responses) ==
    /\ nops < MaxRequests
    /\ LET sys0 == Ensure(system, TRUE)
       IN IF responses = << >>
          THEN /\ system' = sys0
               /\ history' = history
               /\ result' = [op |-> "submit_batch_responses", session |-> s,
                             status |-> 400, success |-> FALSE,
                             responses |-> responses]
          ELSE LET r == ApplyBatch(sys0, responses)
               IN /\ system' = r.sys
                  /\ history' = RememberBatch(history, s, responses)
                  /\ result' = [op |-> "submit_batch_responses", session |-> s,
                                status |-> 200, success |-> TRUE,
                                responses |-> responses,
                                submitted_count |-> r.submitted_count,
                                total_count |-> Len(responses),
                                progress |-> GetProgressPercentage(Loaded, r.sys)]
    /\ nops' = nops + 1
    /\ UNCHANGED <<config, handler>>

\* POST /api/response/batch handled by a thread of its own, the other
\* requests running between its steps: the handler reads the request and
\* makes sure an instance exists (lines 156-166), then runs its loop one
\* entry at a time (lines 168-176), then reads the progress and answers
\* (lines 178-185). handler holds the locals of the request being handled
\* and, in `before`, the responses stored when its loop began.
BatchReceive(s, responses) ==
    /\ handler = NoHandler
    /\ nops < MaxRequests
    /\ system' = Ensure(system, TRUE)
    /\ IF responses = << >>
       THEN /\ handler' = NoHandler
            /\ result' = [op |-> "submit_batch_responses", session |-> s,
                          status |-> 400, success |-> FALSE,
                          responses |-> responses]
       ELSE /\ handler' = [at |-> "loop", session |-> s, responses |-> responses,
                           index |-> 1, submitted_count |-> 0,
                           before |-> Ensure(system, TRUE).user_responses]
            /\ result' = result
    /\ nops' = nops + 1
    /\ UNCHANGED <<config, history>>

\* one iteration of `for resp in responses`; `system` is the global, read
\* again at every call
BatchIterate ==
    /\ handler # NoHandler
    /\ handler.index <= Len(handler.responses)
    /\ LET e == handler.responses[handler.index]
       IN IF EntryValid(e)
          THEN /\ system' = SubmitResponse(system, e.question_id, e.response,
                                           e.additional_details)
               /\ history' = Remember(history, handler.session, e.question_id,
                                      e.response, e.additional_details)
               /\ handler' = [handler EXCEPT !.index = @ + 1,
                                             !.submitted_count = @ + 1]
          ELSE /\ system' = system
               /\ history' = history
               /\ handler' = [handler EXCEPT !.index = @ + 1]
    /\ UNCHANGED <<config, result, nops>>

\* after the loop: system.get_progress_percentage() and the 200 answer
BatchRespond ==
    /\ handler # NoHandler
    /\ handler.index > Len(handler.responses)
    /\ result' = [op |-> "submit_batch_responses", session |-> handler.session,
                  status |-> 200, success |-> TRUE,
                  responses |-> handler.responses,
                  submitted_count |-> handler.submitted_count,
                  total_count |-> Len(handler.responses),
                  progress |-> GetProgressPercentage(Loaded, system)]
    /\ handler' = NoHandler
    /\ UNCHANGED <<config, system, history, nops>>

\* GET /api/progress
ApiGetProgress(s, json_body) ==
    /\ LET sys0 == Ensure(system, json_body)
       IN /\ system' = sys0
          /\ result' = IF sys0 = NoSystem
                       THEN [op |-> "get_progress", session |-> s, status |-> 500]
                       ELSE [op |-> "get_progress", session |-> s, status |-> 200,
                             success |-> TRUE,
                             progress_percentage |-> GetProgressPercentage(Loaded, sys0),
                             answered_required |->
                                 AnsweredCount(RequiredQuestions(Loaded), sys0.user_responses),
                             total_required |-> Len(RequiredQuestions(Loaded)),
                             total_questions |-> Len(GetAllQuestions(Loaded))]
    /\ UNCHANGED <<config, history, nops, handler>>

\* GET /api/profile/export
ApiExportProfile(s, json_body) ==
    /\ LET sys0 == Ensure(system, json_body)
       IN /\ system' = sys0
          /\ result' = IF sys0 = NoSystem
                       THEN [op |-> "export_profile", session |-> s, status |-> 500]
                       ELSE [op |-> "export_profile", session |-> s, status |-> 200,
                             success |-> TRUE,
                             profile |-> ExportUserProfile(Loaded, sys0)]
    /\ UNCHANGED <<config, history, nops, handler>>

\* POST /api/session/clear: PPTDesignerSystem has no clear_session method,
\* so with an instance the call raises AttributeError before `system = None`
\* and the handler answers 500
ApiClearSession(s) ==
    /\ IF system # NoSystem
       THEN /\ system' = system
            /\ result' = [op |-> "clear_session", session |-> s, status |-> 500,
                          success |-> FALSE]
       ELSE /\ system' = NoSystem
            /\ result' = [op |-> "clear_session", session |-> s, status |-> 200,
                          success |-> TRUE]
    /\ UNCHANGED <<config, history, nops, handler>>

(* ---------------------------- specifications -------------------------- *)
\* the methods called on one instance
Next ==
    \/ \E id \in SubmitIds : \E v \in ValuesFor(id) : \E d \in DetailsFor(id) :
           CallSubmitResponse(id, v, d)
    \/ CallCalculateProfileScore
    \/ \E t \in Templates : CallCalculateTemplateMatchScore(t)
    \/ \E catalog \in Catalogs : CallGenerateRecommendations(catalog)
    \/ CallGenerateImplementationPlan
    \/ CallExportUserProfile
    \/ CallGetProgressPercentage

Spec == Init /\ [][Next]_vars

\* a caller that reads the questions phase by phase and answers some
NextQuestions ==
    \/ \E phase_id \in PhaseIds : CallGetQuestionsByPhase(phase_id)
    \/ \E id \in {Q_GOAL, Q_STYLE, Q_TIMELINE} : \E v \in ValuesFor(id) :
           CallSubmitResponse(id, v, NoDetails)

SpecQuestions == Init /\ [][NextQuestions]_vars

\* the endpoints of one Flask process serving two clients
NextApi ==
    \E s \in Sessions :
        \/ ApiInitializeSystem(s)
        \/ \E id \in {Q_GOAL, Q_STYLE, EmptyId, NoId} :
               \E v \in {Text("edu"), Text("minimal"), NoneVal} :
                   ApiSubmitResponse(s, id, v, NoDetails)
        \/ \E responses \in BatchLists : ApiSubmitBatchResponses(s, responses)
        \/ \E json_body \in BOOLEAN : ApiGetProgress(s, json_body)
        \/ \E json_body \in BOOLEAN : ApiExportProfile(s, json_body)
        \/ ApiClearSession(s)

SpecApi == InitApi /\ [][NextApi]_vars

\* the requests that submit responses or read the progress, and the one
\* that builds the instance anew
NextProgress ==
    \E s \in Sessions :
        \/ ApiInitializeSystem(s)
        \/ \E id \in {Q_GOAL, Q_STYLE, Q_COLOR} : \E v \in {Text("edu"), Text("")} :
               ApiSubmitResponse(s, id, v, NoDetails)
        \/ \E responses \in ProgressBatchLists : ApiSubmitBatchResponses(s, responses)
        \/ \E json_body \in BOOLEAN : ApiGetProgress(s, json_body)
        \/ ApiClearSession(s)

SpecProgress == InitApi /\ [][NextProgress]_vars

\* the same process serving its requests on threads (app.run starts the
\* threaded development server and the module takes no lock): the reads of
\* either client run between the steps of a batch request
NextThreads ==
    \/ \E s \in Sessions : \E responses \in ThreadBatchLists : BatchReceive(s, responses)
    \/ BatchIterate
    \/ BatchRespond
    \/ \E s \in Sessions : \E json_body \in BOOLEAN : ApiGetProgress(s, json_body)

SpecThreads == InitApi /\ [][NextThreads]_vars

(* ------------------------------- claims ------------------------------- *)
HasSystem == system # NoSystem

Store == system.user_responses

MaxTenths(c) == Loaded.scoring_system.weight_distribution[c] * 10

\* C1: after any sequence of submits, each of the six category scores of
\* calculate_profile_score is at least 0 and at most the category's
\* configured maximum.
C1_CategoryScoresBounded ==
    HasSystem =>
        LET scores == CalculateProfileScore(Loaded, system)
        IN /\ DOMAIN scores = Categories
           /\ \A c \in Categories : scores[c] >= 0 /\ scores[c] <= MaxTenths(c)

\* C1 witness: calculate_profile_score has returned, one category sits at
\* its maximum with more than the maximum contributed, another is below it
C1_Witness ==
    /\ result.op = "calculate_profile_score"
    /\ \E c \in Categories :
          /\ result.ret[c] = MaxTenths(c)
          /\ SumContributions(Loaded, Store, DOMAIN Store, c) * 2 > MaxTenths(c)
    /\ \E c \in Categories : result.ret[c] < MaxTenths(c)

\* C2: for every template and every store reachable by submit, also one
\* where a designated question holds a boolean or a list,
\* calculate_template_match_score returns a number in [0,100] without
\* raising, and 0 on the empty store.
C2_MatchScoreInRange ==
    HasSystem =>
        \A t \in Templates :
            LET m == CalculateTemplateMatchScore(Loaded, system, t)
            IN /\ ~m.raised
               /\ m.score >= 0 /\ m.score <= 100
               /\ (DOMAIN Store = {} => m.score = 0)

NonIncreasing(recs) ==
    \A i \in 1..Len(recs) : \A j \in 1..Len(recs) :
        i < j => recs[i].match_score >= recs[j].match_score

PositionIn(catalog, name) == CHOOSE i \in 1..Len(catalog) : catalog[i].name = name

TiesInCatalogOrder(recs, catalog) ==
    \A i \in 1..Len(recs) : \A j \in 1..Len(recs) :
        (i < j /\ recs[i].match_score = recs[j].match_score)
            => PositionIn(catalog, recs[i].template_name)
                   < PositionIn(catalog, recs[j].template_name)

\* C3: for every catalog and response state, generate_recommendations
\* returns min(10, |catalog|) recommendations with non-increasing match
\* scores, ties in catalog order; the empty catalog gives the empty sequence.
C3_RankingContract ==
    result.op = "generate_recommendations" =>
        /\ ~result.raised
        /\ Len(result.ret) = Min(10, Len(result.catalog))
        /\ NonIncreasing(result.ret)
        /\ TiesInCatalogOrder(result.ret, result.catalog)

StandardRoadmap ==
    Loaded.workflow_phases[5][1].implementation_roadmaps["standard_timeline_1week"]

\* C4: with no timeline response stored, generate_implementation_plan
\* returns the steps, resource list and customization level of the
\* standard roadmap, exactly as with q5.1.1 = '1week' stored.
C4_DefaultsToStandardRoadmap ==
    (result.op = "generate_implementation_plan" /\ ~Has(Store, Q_TIMELINE)) =>
        LET with == GenerateImplementationPlan(
                        Loaded, SubmitResponse(system, Q_TIMELINE, Text("1week"), NoDetails))
        IN /\ result.ret.phases = StandardRoadmap.steps
           /\ result.ret.phases = with.phases
           /\ result.ret.resources_needed = with.resources_needed
           /\ result.ret.customization_level = with.customization_level

\* C5: submit_response is last-write-wins: the store holds one response
\* per id ever submitted, with the value and details of the most recent
\* submit for that id, and never more entries than ids submitted.
C5_LastWriteWins ==
    HasSystem =>
        /\ DOMAIN Store = DOMAIN history
        /\ Cardinality(DOMAIN Store) <= Cardinality(DOMAIN history)
        /\ \A id \in DOMAIN history :
              /\ Store[id].response = history[id].response
              /\ Store[id].additional_details = history[id].additional_details

\* C5 witness: a submit has just replaced an earlier, different value of
\* its id while another id is stored too
C5_Witness ==
    /\ result.op = "submit_response"
    /\ result.replaced
    /\ Store[result.question_id].response = history[result.question_id].response
    /\ Cardinality(DOMAIN Store) = 2

\* C6: sessions are isolated: what a session reads holds only responses
\* that this session submitted; no request of another session shows in it.
C6_SessionsIsolated ==
    (result.op = "export_profile" /\ result.status = 200) =>
        \A id \in DOMAIN result.profile.responses :
            history[id].session = result.session

\* C7: clear on a session that holds responses reports success and leaves
\* no stored response behind.
C7_ClearDiscardsAll ==
    [][((\E s \in Sessions : ApiClearSession(s)) /\ HasSystem /\ DOMAIN Store # {})
           => /\ result'.success
              /\ (system' = NoSystem \/ DOMAIN system'.user_responses = {})]_vars

\* an entry with a non-empty id and a non-null value
Storable(e) == e.question_id # NoId /\ e.question_id # EmptyId /\ e.response.tag # "none"

StorableCount(responses) ==
    Cardinality({i \in 1..Len(responses) : Storable(responses[i])})

\* the last storable entry of each id is what the store holds for that id
LastStorableWins(responses) ==
    \A i \in 1..Len(responses) :
        (/\ Storable(responses[i])
         /\ \A j \in (i + 1)..Len(responses) :
                ~(Storable(responses[j])
                  /\ responses[j].question_id = responses[i].question_id))
        => /\ responses[i].question_id \in DOMAIN Store
           /\ Store[responses[i].question_id]
                  = [response |-> responses[i].response,
                     additional_details |-> responses[i].additional_details]

StoreIsHistory ==
    /\ DOMAIN Store = DOMAIN history
    /\ \A id \in DOMAIN history :
          Store[id] = [response |-> history[id].response,
                       additional_details |-> history[id].additional_details]

BatchReport ==
    /\ result.status = 200
    /\ result.submitted_count = StorableCount(result.responses)
    /\ result.total_count = Len(result.responses)
    /\ LastStorableWins(result.responses)
    /\ StoreIsHistory

\* C8 as stated: for every list, the empty one included, the batch stores
\* the storable entries in order, skips the others and reports
\* submitted_count and total_count.
C8_EveryListReported ==
    result.op = "submit_batch_responses" => BatchReport

\* C8 as amended: a non-empty list is applied entry by entry as above and
\* reported with both counts; the empty list is rejected with status 400
\* and stores nothing.
C8_BatchBestEffort ==
    result.op = "submit_batch_responses" =>
        IF result.responses = << >>
        THEN result.status = 400 /\ ~result.success /\ StoreIsHistory
        ELSE BatchReport

\* C8 witness: a batch whose first entry was skipped and whose second was
\* stored
C8_Witness ==
    /\ result.op = "submit_batch_responses"
    /\ Len(result.responses) = 2
    /\ ~Storable(result.responses[1])
    /\ Storable(result.responses[2])
    /\ result.submitted_count = 1
    /\ result.responses[2].question_id \in DOMAIN Store

RequiredIndexes ==
    LET qs == GetAllQuestions(Loaded) IN {i \in 1..Len(qs) : qs[i].required}

AnsweredIndexes ==
    LET qs == GetAllQuestions(Loaded)
    IN {i \in 1..Len(qs) : qs[i].required /\ qs[i].question_id \in DOMAIN Store}

\* C9: get_progress_percentage is 100 * answered required / required, a
\* value in [0,100], and 100 when no question is required.
C9_ProgressFormula ==
    HasSystem =>
        LET p == GetProgressPercentage(Loaded, system)
            n == Cardinality(RequiredIndexes)
            k == Cardinality(AnsweredIndexes)
        IN /\ p.den > 0
           /\ p.num >= 0 /\ p.num <= 100 * p.den
           /\ (n = 0 => p.num = 100 * p.den)
           /\ (n > 0 => p.num * n = 100 * k * p.den)

\* C9 witness: progress was read with some but not all required questions
\* answered, a response to a question that is not required being stored
C9_Witness ==
    /\ result.op = "get_progress_percentage"
    /\ result.ret.num > 0
    /\ result.ret.num < 100 * result.ret.den
    /\ Q_COLOR \in DOMAIN Store

ExportView(recs) ==
    [i \in 1..Len(recs) |->
        [name |-> recs[i].template_name, url |-> recs[i].template_url,
         score |-> recs[i].match_score]]

\* C10: the recommendations of export_user_profile are the first 5 entries
\* of the ranking the current responses produce (over whichever catalog
\* the ranking is taken), whenever generate_recommendations last ran.
C10_ExportIsCurrentRanking ==
    result.op = "export_user_profile" =>
        \E catalog \in Catalogs :
            LET r == GenerateRecommendations(Loaded, system, catalog)
            IN /\ ~r.raised
               /\ result.ret.recommendations = ExportView(FirstN(r.sys.recommendations, 5))

\* C11: get_questions_by_phase(p) returns the questions of phase p, in
\* document order, when 1 <= p <= the number of phases, and fails with an
\* out-of-range error for every other p, zero and negative p included; it
\* never returns the questions of another phase
C11_PhaseLookupInRange ==
    result.op = "get_questions_by_phase" =>
        LET p == result.phase_id
            phases == Loaded.workflow_phases
        IN IF p >= 1 /\ p <= Len(phases)
           THEN /\ ~result.ret.raised
                /\ result.ret.ret = SectionsQuestions(phases[p])
           ELSE result.ret.raised

\* the catalog questions that count towards category c: answered with a
\* truthy value, with an id whose prefix maps to c
Contributors(c) ==
    LET qs == GetAllQuestions(Loaded)
    IN {i \in 1..Len(qs) :
            /\ qs[i].question_id \in DOMAIN Store
            /\ Truthy(Store[qs[i].question_id].response)
            /\ CategoryMapping(Prefix(qs[i].question_id)) = c
            /\ \A j \in 1..(i - 1) : qs[j].question_id # qs[i].question_id}

RECURSIVE WeightOf(_)
WeightOf(indexes) ==
    IF indexes = {} THEN 0
    ELSE LET i == CHOOSE x \in indexes : TRUE
         IN GetAllQuestions(Loaded)[i].weight + WeightOf(indexes \ {i})

\* C12: calculate_profile_score returns all six categories, each equal to
\* min(2 * S, category maximum) where S sums weight/10 over the stored
\* responses that answer a catalog question of that category with a truthy
\* value; a falsy value adds nothing, a category without contributor is 0,
\* and q1.1.1 (weight 8) alone with maximum 20 gives content_goals = 1.6
C12_CategoryScoreFormula ==
    result.op = "calculate_profile_score" =>
        /\ DOMAIN result.ret = Categories
        /\ \A c \in Categories :
              /\ result.ret[c] = Min(2 * WeightOf(Contributors(c)), MaxTenths(c))
              /\ Contributors(c) = {} => result.ret[c] = 0
        /\ (/\ config = "standard"
            /\ Q_GOAL \in DOMAIN Store
            /\ Truthy(Store[Q_GOAL].response)) => result.ret["content_goals"] = 16

\* q1.1.1 truthy, q2.2.1 answered with an empty list, an unknown id stored
C12_Witness ==
    /\ result.op = "calculate_profile_score"
    /\ config = "standard"
    /\ DOMAIN Store = {Q_GOAL, Q_VERSION, Q_UNKNOWN}
    /\ Truthy(Store[Q_GOAL].response)
    /\ ~Truthy(Store[Q_VERSION].response)
    /\ result.ret["content_goals"] = 16
    /\ result.ret["technical_requirements"] = 0

\* the four factors: the response each one reads, the template list it is
\* looked up in, and its weight
Factors == {"style_match", "color_match", "functionality_match", "technical_compatibility"}

FactorId(f) ==
    CASE f = "style_match" -> Q_STYLE
      [] f = "color_match" -> Q_COLOR
      [] f = "functionality_match" -> Q_GOAL
      [] OTHER -> Q_VERSION

FactorList(f, t) ==
    CASE f = "style_match" -> t.style_tags
      [] f = "color_match" -> t.color_schemes
      [] f = "functionality_match" -> t.suitable_for
      [] OTHER -> t.compatible_versions

FactorWeight(f) ==
    CASE f = "style_match" -> 25
      [] f = "color_match" -> 20
      [] f = "functionality_match" -> 30
      [] OTHER -> 25

RECURSIVE TotalWeight(_)
TotalWeight(fs) ==
    IF fs = {} THEN 0
    ELSE LET f == CHOOSE x \in fs : TRUE IN FactorWeight(f) + TotalWeight(fs \ {f})

\* every response a factor reads is absent or a text
FactorResponsesAreText ==
    \A f \in Factors : FactorId(f) \in DOMAIN Store => Store[FactorId(f)].response.tag = "text"

\* the factors whose response is an element of the template's list
InList(t) ==
    {f \in Factors : /\ FactorId(f) \in DOMAIN Store
                     /\ Store[FactorId(f)].response.v \in FactorList(f, t)}

\* the same, the style response lower-cased before the lookup
InListLowered(t) ==
    {f \in Factors :
        /\ FactorId(f) \in DOMAIN Store
        /\ (IF f = "style_match" THEN Lower(Store[Q_STYLE].response.v)
                                 ELSE Store[FactorId(f)].response.v) \in FactorList(f, t)}

\* C13 (as stated): for text responses the match score is the sum of the
\* weights of the triggered factors, 25 if the q2.1.1 response is in
\* style_tags, 20 if the q1.3.2 response is in color_schemes, 30 if the
\* q1.1.1 response is in suitable_for, 25 if the q2.2.1 response is in
\* compatible_versions, whatever the other responses and category scores
C13_FactorsByMembership ==
    (result.op = "calculate_template_match_score" /\ FactorResponsesAreText) =>
        /\ ~result.ret.raised
        /\ result.ret.score = TotalWeight(InList(result.template))

\* C13 (amended): the same sum, the style factor triggered when the
\* lower-cased q2.1.1 response is in style_tags; style, color and goal
\* matching with no version stored gives 75
C13_FactorsSum ==
    (result.op = "calculate_template_match_score" /\ FactorResponsesAreText) =>
        /\ ~result.ret.raised
        /\ result.ret.score = TotalWeight(InListLowered(result.template))
        /\ (/\ {"style_match", "color_match", "functionality_match"}
                    \subseteq InListLowered(result.template)
            /\ Q_VERSION \notin DOMAIN Store) => result.ret.score = 75

\* style, color and goal stored and matching the first mock template, no
\* version stored
C13_Witness ==
    /\ result.op = "calculate_template_match_score"
    /\ result.template = MinimalBeige
    /\ DOMAIN Store = {Q_STYLE, Q_COLOR, Q_GOAL}
    /\ FactorResponsesAreText
    /\ InListLowered(MinimalBeige) = {"style_match", "color_match", "functionality_match"}
    /\ result.ret.score = 75

\* the store holds neither what it held when the loop of the batch in
\* flight began nor what it will hold when that loop has run to its end
PartlyApplied ==
    /\ handler # NoHandler
    /\ Store # handler.before
    /\ Store # ApplyBatch(system, SubSeq(handler.responses, handler.index,
                                         Len(handler.responses))).sys.user_responses

\* a read request of session s is served in this step
ReadBy(s) == \E json_body \in BOOLEAN : ApiGetProgress(s, json_body)

\* C14: when a batch submission and a read touch the same session's store
\* concurrently, the batch is atomic for the read: no read is served from a
\* store in which some but not all of the batch's valid entries are applied
C14_BatchAtomicForReads ==
    [][\A s \in Sessions :
          (handler # NoHandler /\ handler.session = s /\ ReadBy(s)) => ~PartlyApplied]_vars

\* the three recognized timeline literals and their buckets
Buckets ==
    [literal \in {"1day", "1week", "1month"} |->
        CASE literal = "1day" -> "tight_timeline_1day"
          [] literal = "1week" -> "standard_timeline_1week"
          [] OTHER -> "extended_timeline_1month"]

Recognized(response) == response.tag = "text" /\ response.v \in DOMAIN Buckets

\* C15: with a recognized literal stored for q5.1.1 the plan carries the
\* roadmap of that literal's bucket; with any other stored value it carries
\* the standard roadmap and surfaces the standard timeline
C15_TimelineSelectsRoadmap ==
    (result.op = "generate_implementation_plan" /\ Has(Store, Q_TIMELINE)) =>
        LET response == Store[Q_TIMELINE].response
            maps == Loaded.workflow_phases[5][1].implementation_roadmaps
            roadmap == IF Recognized(response) THEN maps[Buckets[response.v]]
                       ELSE maps["standard_timeline_1week"]
        IN /\ ~result.ret.raised
           /\ result.ret.phases = roadmap.steps
           /\ result.ret.resources_needed = <<roadmap.resources>>
           /\ result.ret.customization_level = roadmap.customization_level
           /\ result.ret.timeline = IF Recognized(response) THEN response
                                    ELSE Text("1week")

CatalogIds ==
    LET qs == GetAllQuestions(Loaded) IN {qs[i].question_id : i \in 1..Len(qs)}

\* the instance with the response to id taken out of its store
Without(id) ==
    [system EXCEPT !.user_responses = [k \in (DOMAIN Store) \ {id} |-> Store[k]]]

\* C16: a response whose id is not in the catalog is accepted and stored,
\* and the stored entry changes no category score, no template match score
\* and no progress value compared with the same store without it, nor does
\* it make a scoring operation raise
C16_UnknownIdTolerated ==
    HasSystem =>
        /\ (result.op = "submit_response" /\ result.question_id \notin CatalogIds) =>
               /\ result.ret
               /\ result.question_id \in DOMAIN Store
               /\ Store[result.question_id].response = history[result.question_id].response
        /\ \A id \in (DOMAIN Store) \ CatalogIds :
              /\ result.op = "calculate_profile_score" =>
                     result.ret = CalculateProfileScore(Loaded, Without(id))
              /\ result.op = "calculate_template_match_score" =>
                     result.ret = CalculateTemplateMatchScore(Loaded, Without(id),
                                                              result.template)
              /\ result.op = "get_progress_percentage" =>
                     result.ret = GetProgressPercentage(Loaded, Without(id))

\* scores computed over a store that holds a catalog answer and two ids the
\* catalog does not have, one of them with the prefix of that answer
C16_Witness ==
    /\ result.op = "calculate_profile_score"
    /\ config = "standard"
    /\ DOMAIN Store = {Q_GOAL, Q_ORPHAN, Q_UNKNOWN}
    /\ Truthy(Store[Q_GOAL].response)
    /\ Truthy(Store[Q_ORPHAN].response)
    /\ result.ret["content_goals"] = 16

\* what the style response adds to the score of template t
StyleFactor(t) ==
    CalculateTemplateMatchScore(Loaded, system, t).score
        - CalculateTemplateMatchScore(Loaded, Without(Q_STYLE), t).score

\* C17: the style factor is matched case-insensitively: for every text
\* style response and every template it is 25 exactly when some style tag
\* of the template equals the response ignoring letter case, so 'minimal'
\* matches the tag 'Minimal' and 'MINIMAL' matches the tag 'minimal'
C17_StyleIgnoresCase ==
    (/\ result.op = "calculate_template_match_score"
     /\ Has(Store, Q_STYLE)
     /\ Store[Q_STYLE].response.tag = "text") =>
        LET t == result.template
            r == Store[Q_STYLE].response.v
        IN /\ ~result.ret.raised
           /\ StyleFactor(t) = IF \E tag \in t.style_tags : Lower(tag) = Lower(r)
                                THEN 25 ELSE 0

\* the six read operations; a step is a call of one of them when result
\* is that call's result after it
ReadOps ==
    {"calculate_profile_score", "calculate_template_match_score",
     "get_progress_percentage", "generate_implementation_plan",
     "generate_recommendations", "export_user_profile"}

\* C18: calculate_profile_score, calculate_template_match_score,
\* get_progress_percentage, generate_implementation_plan,
\* generate_recommendations and export_user_profile leave the stored
\* responses as they were, and generate_recommendations leaves the catalog
\* it was given with the same templates in the same order
C18_ReadsLeaveStore ==
    [][result'.op \in ReadOps =>
          /\ system'.user_responses = system.user_responses
          /\ result'.op = "generate_recommendations" =>
                 result'.catalog_after = result'.catalog]_vars

\* a ranking whose first entry is not the first template of the catalog,
\* computed over a non-empty store
C18_Witness ==
    /\ result.op = "generate_recommendations"
    /\ ~result.raised
    /\ Store # EmptyStore
    /\ result.ret # << >>
    /\ result.ret[1].template_name # result.catalog[1].name
    /\ result.catalog_after = result.catalog

\* the progress a request would be answered with: a request that finds no
\* instance builds one first
ProgressOf(sys) == GetProgressPercentage(Loaded, Ensure(sys, TRUE))

\* every required question id is in the store of the instance
AllRequiredSubmitted(sys) ==
    /\ sys # NoSystem
    /\ LET qs == GetAllQuestions(Loaded)
       IN \A i \in 1..Len(qs) :
              qs[i].required => qs[i].question_id \in DOMAIN sys.user_responses

\* C19: over submit and batch-submit requests (and reads) progress never
\* decreases, an id overwritten with a falsy value staying counted; once
\* every required id has been submitted progress is 100, and it stays 100
\* until the instance is cleared or initialized again
C19_ProgressNeverDecreases ==
    [][result'.op \notin {"initialize_system", "clear_session"} =>
          LET before == ProgressOf(system)
              after == ProgressOf(system')
          IN /\ before.num * after.den <= after.num * before.den
             /\ AllRequiredSubmitted(system) =>
                    /\ before.num = 100 * before.den
                    /\ after.num = 100 * after.den
             /\ AllRequiredSubmitted(system') => after.num = 100 * after.den]_vars

\* both required questions answered by an earlier request, then q1.1.1
\* overwritten with false by a batch that reports progress 100
C19_Witness ==
    /\ config = "standard"
    /\ nops = 2
    /\ result.op = "submit_batch_responses"
    /\ result.status = 200
    /\ Len(result.responses) = 1
    /\ result.responses[1].response = Bool(FALSE)
    /\ Store[Q_GOAL].response = Bool(FALSE)
    /\ Q_STYLE \in DOMAIN Store
    /\ result.progress.num = 100 * result.progress.den

====
